---- MODULE Spec2Model ----
(***************************************************************************)
(* nmc: removal of node_modules folders.  Model of src/main.rs.            *)
(*                                                                         *)
(* Spec, SpecLive and SpecPool model the deletion pipeline: main,          *)
(* delete_projects, delete_project, status_poller and the unbounded async  *)
(* channel that connects them, from the state in which identify_projects   *)
(* (and the optional selection) returned a non-empty list and the channel  *)
(* was created.  Paths there are the numbers 1..n.                         *)
(*                                                                         *)
(* SpecWalk models identify_projects over a directory tree, and SpecMain   *)
(* the whole of main: Discovery, the empty check, the selection prompt and *)
(* then the pipeline.  Paths there are sequences of directory names.       *)
(***************************************************************************)
EXTENDS Integers, Sequences, FiniteSets, TLC

\* ------------------------------------------------------------------ bounds
\* Largest candidate list explored by Spec and SpecLive.
MaxProjects == 3
\* Length of the candidate list explored by SpecPool (more than the buffer).
PoolProjects == 9
\* SpecPool: how many older in-flight removals a removal may overtake.
MaxOvertake == 0
\* SpecPool: how many buffer slots may stay free, while projects are left,
\* when the pool polls a woken future instead of pulling the next project.
MaxIdle == 0

\* SpecWalk, SpecMain: most directories in the tree under the working
\* directory (the root included), and largest --depth.
MaxDirs == 4
MaxDepth == 3

\* ------------------------------------------------------- program constants
\* .buffer_unordered(8)
BufferLimit == 8
\* let (tx, rx) = async_channel::unbounded(); tx is moved into the pool.
InitialSendersKept == 1 + 1
InitialSenders == 1

Terminal == {"Failed", "Done"}

\* What the filesystem holds for a candidate when the pool reaches it:
\*   present  candidate directory and node_modules both there
\*   denied   both there, but removing node_modules is refused
\*   nocache  node_modules was removed by someone else after Discovery
\*   gone     the candidate directory itself vanished after Discovery
\*   removed  node_modules was removed by this run
FsAtStart == {"present", "denied", "nocache", "gone"}

VARIABLES
    silent,      \* args.silent
    projects,    \* Vec<Project> given to the pool and to the reporter
    fs,          \* filesystem, per candidate path
    next,        \* index of the next project the stream iterator yields
    pc,          \* per path: where its delete_project future stands
    poolPc,      \* delete_projects: "running", "finished", "panicked"
    chan,        \* queue of the channel
    senders,     \* number of live Sender handles
    rxAlive,     \* the Receiver handle is not dropped
    status,      \* project_map of status_poller: path -> Status
    reporterPc,  \* status_poller: "off" (silent), "running", "done"
    mainPc,      \* main: "running", "exited"
    exitCode,    \* process exit code once main has exited
    sent,        \* history: statuses sent so far, per path, in send order
    recvd,       \* history: statuses received by the reporter, per path
    interactive, \* args.interactive
    depth,       \* args.depth
    tree,        \* the directories under the working directory
    manifest,    \* the directories that hold a package.json file
    stack,       \* walker: the open directories and their unread entries
    found,       \* identify_projects: the projects vector being built
    considered,  \* history: directories whose package.json entry was seen
    chanCreated, \* async_channel::unbounded() was called
    prompted,    \* the selection prompt: how it ended ("no" prompt, "ok",
                 \* "aborted", "panicked") and the answer of the user
    deleted      \* history: the directories this run removed recursively

\* what main does before the pool starts
frontVars == <<interactive, depth, tree, manifest, stack, found, considered,
               chanCreated, prompted>>

vars == <<silent, projects, fs, next, pc, poolPc, chan, senders, rxAlive,
          status, reporterPc, mainPc, exitCode, sent, recvd, frontVars,
          deleted>>

\* ----------------------------------------------------------------- helpers
Range(s) == {s[i] : i \in DOMAIN s}

\* Project::new: every project starts as Waiting.
NewStatus == "Waiting"

\* Project::update_status: the new status replaces the old one.
UpdateStatus(old, new) == new

StatusUpdate(p, s) == [path |-> p, status |-> s]

\* futures in the in_progress_queue of buffer_unordered
InProgress == {p \in Range(projects) : pc[p] \in {"removing", "retOk", "retErr"}}

\* buffer_unordered pulls the next future while the queue is below its limit
HasRoomOffByOne(inflight) == inflight <= BufferLimit
HasRoom(inflight) == inflight < BufferLimit

\* tx.send(..).await on an unbounded channel: never waits; Err iff the
\* receiver is dropped (the caller unwraps it).
SendOk(alive) == alive

\* first statement of delete_project: the Deleting event
StartEventsNone(p) == << >>
StartEvents(p) == << StatusUpdate(p, "Deleting") >>

\* path.canonicalize(): Err when the candidate directory does not exist
CanonicalizeOk(f) == f # "gone"

\* tokio::fs::remove_dir_all(node_modules_dir): Ok iff it removed the folder
RemoveOk(f) == f = "present"

\* the match on the removal result
TerminalStatusSwapped(ok) == IF ok THEN "Failed" ELSE "Done"
TerminalStatus(ok) == IF ok THEN "Done" ELSE "Failed"

\* rx.recv().await returns Err only when the channel is closed and empty
RecvErrOnClose(q, n) == n = 0
RecvErr(q, n) == q = << >> /\ n = 0

\* main keeps rx until it returns (silent) or hands it to status_poller
ReceiverKept(s) == TRUE

\* node_modules_dir: the candidate's path joined with "node_modules"
RemoveTargetIsProject(p) == p
RemoveTarget(p) == <<p, "node_modules">>

NotPrompted == [how |-> "no", ans |-> << >>]

\* ------------------------------------------------------------------- Init
\* Spec, SpecLive, SpecPool start where the pool starts: Discovery and the
\* selection are over and are not looked at (no tree, non-interactive).
FrontOver ==
    /\ interactive = FALSE
    /\ depth = 0
    /\ tree = {}
    /\ manifest = {}
    /\ stack = << >>
    /\ found = << >>
    /\ considered = {}
    /\ chanCreated = TRUE
    /\ prompted = NotPrompted
    /\ deleted = {}

InitWith(ns, silents, fss) ==
    /\ FrontOver
    /\ silent \in silents
    /\ \E n \in ns :
         /\ projects = [i \in 1 .. n |-> i]
         /\ fs \in [1 .. n -> fss]
         /\ pc = [p \in 1 .. n |-> "queued"]
         /\ status = [p \in 1 .. n |-> NewStatus]
         /\ sent = [p \in 1 .. n |-> << >>]
         /\ recvd = [p \in 1 .. n |-> << >>]
    /\ next = 1
    /\ poolPc = "running"
    /\ chan = << >>
    /\ senders = InitialSenders
    /\ rxAlive = ReceiverKept(silent)
    /\ reporterPc = IF silent THEN "off" ELSE "running"
    /\ mainPc = "running"
    /\ exitCode = 0

Init == InitWith(1 .. MaxProjects, BOOLEAN, FsAtStart)

\* ------------------------------------------------------------ delete pool
\* A panic inside the pool task: the task's future is dropped with every
\* delete_project future and every Sender it owns.
Panic(p) ==
    /\ poolPc' = "panicked"
    /\ pc' = [pc EXCEPT ![p] = "panicked"]
    /\ senders' = 0
    /\ UNCHANGED next

\* buffer_unordered takes the next project from the iterator (p.path(),
\* tx.clone()) and polls its future for the first time: send Deleting,
\* canonicalize, start remove_dir_all.
Start ==
    /\ mainPc = "running"
    /\ poolPc = "running"
    /\ next <= Len(projects)
    /\ HasRoom(Cardinality(InProgress))
    /\ LET p == projects[next]
           evs == StartEvents(p)
       IN  IF ~SendOk(rxAlive)
           THEN Panic(p) /\ UNCHANGED <<chan, sent>>
           ELSE /\ chan' = chan \o evs
                /\ sent' = [sent EXCEPT ![p] = @ \o [i \in DOMAIN evs |-> evs[i].status]]
                /\ IF CanonicalizeOk(fs[p])
                   THEN /\ pc' = [pc EXCEPT ![p] = "removing"]
                        /\ next' = next + 1
                        /\ senders' = senders + 1
                        /\ UNCHANGED poolPc
                   ELSE Panic(p)
    /\ UNCHANGED <<silent, projects, fs, rxAlive, status, reporterPc, mainPc,
                   exitCode, recvd, frontVars, deleted>>

\* remove_dir_all returns on its blocking thread.  The pool task may have
\* died meanwhile: the blocking operation still runs, unless the process
\* ends first.
RemoveReturn(p) ==
    /\ p \in Range(projects)
    /\ mainPc = "running"
    /\ pc[p] = "removing"
    /\ IF RemoveOk(fs[p])
       THEN /\ fs' = [fs EXCEPT ![p] = "removed"]
            /\ deleted' = deleted \cup {RemoveTarget(p)}
            /\ pc' = [pc EXCEPT ![p] = "retOk"]
       ELSE /\ pc' = [pc EXCEPT ![p] = "retErr"]
            /\ UNCHANGED <<fs, deleted>>
    /\ UNCHANGED <<silent, projects, next, poolPc, chan, senders, rxAlive,
                   status, reporterPc, mainPc, exitCode, sent, recvd,
                   frontVars>>

\* the pool polls the woken future: it sends the terminal event and ends
Finish(p) ==
    /\ p \in Range(projects)
    /\ mainPc = "running"
    /\ poolPc = "running"
    /\ pc[p] \in {"retOk", "retErr"}
    /\ IF ~SendOk(rxAlive)
       THEN Panic(p) /\ UNCHANGED <<chan, sent>>
       ELSE LET s == TerminalStatus(pc[p] = "retOk")
            IN  /\ chan' = Append(chan, StatusUpdate(p, s))
                /\ sent' = [sent EXCEPT ![p] = Append(@, s)]
                /\ pc' = [pc EXCEPT ![p] = "done"]
                /\ senders' = senders - 1
                /\ UNCHANGED <<poolPc, next>>
    /\ UNCHANGED <<silent, projects, fs, rxAlive, status, reporterPc, mainPc,
                   exitCode, recvd, frontVars, deleted>>

\* collect() completes: delete_projects returns and drops its tx
PoolFinish ==
    /\ mainPc = "running"
    /\ poolPc = "running"
    /\ next > Len(projects)
    /\ InProgress = {}
    /\ poolPc' = "finished"
    /\ senders' = senders - 1
    /\ UNCHANGED <<silent, projects, fs, next, pc, chan, rxAlive, status,
                   reporterPc, mainPc, exitCode, sent, recvd, frontVars,
                   deleted>>

\* --------------------------------------------------------------- reporter
\* one turn of `while let Ok(update) = rx.recv().await`
Recv ==
    /\ reporterPc = "running"
    /\ chan # << >>
    /\ LET update == Head(chan)
       IN  /\ chan' = Tail(chan)
           /\ status' = IF update.path \in DOMAIN status
                        THEN [status EXCEPT ![update.path] =
                                 UpdateStatus(@, update.status)]
                        ELSE status
           /\ recvd' = [recvd EXCEPT ![update.path] = Append(@, update.status)]
    /\ UNCHANGED <<silent, projects, fs, next, pc, poolPc, senders, rxAlive,
                   reporterPc, mainPc, exitCode, sent, frontVars, deleted>>

\* recv returns Err: the loop ends, status_poller returns and drops rx
ReporterEnd ==
    /\ reporterPc = "running"
    /\ RecvErr(chan, senders)
    /\ reporterPc' = "done"
    /\ rxAlive' = FALSE
    /\ UNCHANGED <<silent, projects, fs, next, pc, poolPc, chan, senders,
                   status, mainPc, exitCode, sent, recvd, frontVars, deleted>>

\* ------------------------------------------------------------------- main
\* main ends: after status_poller returned (non-silent), after
\* delete_projects returned or panicked (silent).  The runtime is dropped
\* with main: a blocking removal that has not run by then never runs (one
\* that has begun returns before the process ends, which is RemoveReturn
\* taking its step first).
MainExit ==
    /\ mainPc = "running"
    /\ IF silent THEN poolPc # "running" ELSE reporterPc = "done"
    /\ mainPc' = "exited"
    /\ exitCode' = IF silent /\ poolPc = "panicked" THEN 101 ELSE 0
    /\ rxAlive' = FALSE
    /\ UNCHANGED <<silent, projects, fs, next, pc, poolPc, chan, senders,
                   status, reporterPc, sent, recvd, frontVars, deleted>>

Next ==
    \/ Start
    \/ \E p \in Range(projects) : RemoveReturn(p)
    \/ \E p \in Range(projects) : Finish(p)
    \/ PoolFinish
    \/ Recv
    \/ ReporterEnd
    \/ MainExit

Spec == Init /\ [][Next]_vars

\* The runtime keeps polling every task that can make progress, every
\* blocking removal returns, and main returns once it can.
Fairness ==
    /\ WF_vars(Start)
    /\ \A p \in 1 .. MaxProjects : WF_vars(RemoveReturn(p))
    /\ \A p \in 1 .. MaxProjects : WF_vars(Finish(p))
    /\ WF_vars(PoolFinish)
    /\ WF_vars(Recv)
    /\ WF_vars(ReporterEnd)
    /\ WF_vars(MainExit)

\* The reporter runs in non-silent mode only: the mode liveness is about.
\* "denied" is left out: the program cannot tell it from "nocache" (both
\* resolve, both fail to remove).
InitLive == InitWith(1 .. MaxProjects, {FALSE}, {"present", "nocache", "gone"})

SpecLive == InitLive /\ [][Next]_vars /\ Fairness

\* ------------------------------------------------- the pool under load
\* A list longer than the buffer; at most one candidate whose filesystem
\* state differs from "present".
InitPool ==
    /\ InitWith({PoolProjects}, {TRUE}, {"present", "nocache", "gone"})
    /\ Cardinality({p \in DOMAIN fs : fs[p] # "present"}) <= 1

\* in-flight futures started before p that are still in one of `states`
Older(p, states) == {q \in InProgress : q < p /\ pc[q] \in states}

\* The blocking threads return, and the pool polls the woken futures, with
\* a bounded amount of reordering against the start order.
RemoveReturnNear(p) ==
    /\ Cardinality(Older(p, {"removing"})) <= MaxOvertake
    /\ RemoveReturn(p)

FinishNear(p) ==
    /\ Cardinality(Older(p, {"removing", "retOk", "retErr"})) <= MaxOvertake
    /\ next > Len(projects) \/ BufferLimit - Cardinality(InProgress) <= MaxIdle
    /\ Finish(p)

NextPool ==
    \/ Start
    \/ \E p \in Range(projects) : RemoveReturnNear(p)
    \/ \E p \in Range(projects) : FinishNear(p)
    \/ PoolFinish
    \/ MainExit

SpecPool == InitPool /\ [][NextPool]_vars


\* ============================================================== Discovery
\* A directory is the sequence of names that leads to it from the working
\* directory; << >> is the working directory itself.
Root == << >>
CacheName == "node_modules"
Names == {"a", CacheName}

Parent(d) == SubSeq(d, 1, Len(d) - 1)

RECURSIVE TreesUpTo(_)
\* every directory tree with at most n directories
TreesUpTo(n) ==
    IF n <= 1 THEN {{Root}}
    ELSE LET smaller == TreesUpTo(n - 1)
         IN  smaller \cup
             UNION {{t \cup {Append(dx[1], dx[2])} : dx \in t \X Names} :
                    t \in smaller}

\* characters of a file name
Chars(name) ==
    IF name = CacheName
    THEN <<"n", "o", "d", "e", "_", "m", "o", "d", "u", "l", "e", "s">>
    ELSE <<name>>

RECURSIVE PathStr(_)
\* the path walkdir gives a directory under WalkDir::new("."), and
\* Path::parent() gives for a file in it: ".", "./a", "./a/node_modules"
PathStr(d) ==
    IF d = Root THEN <<".">>
    ELSE PathStr(Parent(d)) \o <<"/">> \o Chars(d[Len(d)])

\* impl Display for Project: split_at(2) panics when the string is shorter
DisplaySkip == 2
DisplayOk(str) == DisplaySkip <= Len(str)
Display(str) == SubSeq(str, DisplaySkip + 1, Len(str))

\* the entries read_dir gives for a directory: its sub-directories and its
\* package.json file, in no particular order
Children(d) == {c \in tree : c # Root /\ Parent(c) = d}
Entries(d) ==
    {[kind |-> "dir", dir |-> c] : c \in Children(d)} \cup
    (IF d \in manifest THEN {[kind |-> "file", dir |-> d]} ELSE {})

Frame(d) == [dir |-> d, rest |-> Entries(d)]
Pop(st) == SubSeq(st, 1, Len(st) - 1)

\* WalkDir .max_depth(depth): an open directory whose entries would lie
\* deeper than max_depth is closed unread
TooDeepOffByOne(st, maxDepth) == Len(st) > maxDepth + 1
TooDeep(st, maxDepth) == Len(st) > maxDepth

RECURSIVE Settle(_)
\* walker.next() closes the directories that are too deep or read to the end
Settle(st) ==
    IF st = << >> THEN st
    ELSE IF TooDeep(st, depth) \/ st[Len(st)].rest = {}
         THEN Settle(Pop(st))
         ELSE st

\* project_dir.join("node_modules").exists()
HasCacheAlways(d) == TRUE
HasCache(d) == Append(d, CacheName) \in tree

\* walker.skip_current_dir(): the innermost open directory is closed
SkipNothing(st) == st
SkipCurrentDir(st) == IF st = << >> THEN st ELSE Pop(st)

\* the first walker.next(): the root itself is yielded (a directory: the
\* loop body does nothing) and opened
WalkRoot ==
    /\ mainPc = "start"
    /\ stack' = <<Frame(Root)>>
    /\ mainPc' = "identify"
    /\ UNCHANGED <<silent, projects, fs, next, pc, poolPc, chan, senders,
                   rxAlive, status, reporterPc, exitCode, sent, recvd,
                   interactive, depth, tree, manifest, found, considered,
                   chanCreated, prompted, deleted>>

\* one turn of `while let Some(entry) = walker.next()` that yields an entry
WalkNext ==
    /\ mainPc = "identify"
    /\ LET st == Settle(stack)
       IN  /\ st # << >>
           /\ \E e \in st[Len(st)].rest :
                LET read == [st EXCEPT ![Len(st)].rest = @ \ {e}]
                IN  IF e.kind = "dir"
                    THEN /\ stack' = Append(read, Frame(e.dir))
                         /\ UNCHANGED <<found, considered>>
                    ELSE /\ considered' = considered \cup {e.dir}
                         /\ found' = IF HasCache(e.dir)
                                     THEN Append(found, e.dir)
                                     ELSE found
                         /\ stack' = SkipCurrentDir(read)
    /\ UNCHANGED <<silent, projects, fs, next, pc, poolPc, chan, senders,
                   rxAlive, status, reporterPc, mainPc, exitCode, sent, recvd,
                   interactive, depth, tree, manifest, chanCreated, prompted,
                   deleted>>

\* walker.next() is None: identify_projects returns the vector
WalkEnd ==
    /\ mainPc = "identify"
    /\ Settle(stack) = << >>
    /\ stack' = << >>
    /\ projects' = found
    /\ mainPc' = "check"
    /\ UNCHANGED <<silent, fs, next, pc, poolPc, chan, senders, rxAlive,
                   status, reporterPc, exitCode, sent, recvd, interactive,
                   depth, tree, manifest, found, considered, chanCreated,
                   prompted, deleted>>

\* ============================================================ main, front
\* projects.is_empty()
NeverEmpty(v) == FALSE
IsEmpty(v) == v = << >>

\* if projects.is_empty() { return; }  let (tx, rx) = unbounded();
CheckEmpty ==
    /\ mainPc = "check"
    /\ IF IsEmpty(projects)
       THEN /\ mainPc' = "exited"
            /\ exitCode' = 0
            /\ UNCHANGED <<chanCreated, senders, rxAlive>>
       ELSE /\ chanCreated' = TRUE
            /\ senders' = InitialSenders
            /\ rxAlive' = ReceiverKept(silent)
            /\ mainPc' = IF interactive THEN "prompt" ELSE "spawn"
            /\ UNCHANGED exitCode
    /\ UNCHANGED <<silent, projects, fs, next, pc, poolPc, chan, status,
                   reporterPc, sent, recvd, interactive, depth, tree,
                   manifest, stack, found, considered, prompted, deleted>>

RECURSIVE Pick(_, _, _)
\* the elements of s at the indexes in S, from index i on, in order
Pick(s, S, i) ==
    IF i > Len(s) THEN << >>
    ELSE (IF i \in S THEN <<s[i]>> ELSE << >>) \o Pick(s, S, i + 1)

\* Ok(ans) => projects = ans
SelectionIgnored(all, ans) == all
Selected(all, ans) == ans

\* Err(_) => { return; }
AbortFallsThrough == "spawn"
AfterAbort == "exited"

\* MultiSelect::new(.., projects.clone()).prompt(): the options are
\* rendered with Display; the user picks any of them, or aborts.
Prompt ==
    /\ mainPc = "prompt"
    /\ \/ /\ \A i \in DOMAIN projects : DisplayOk(PathStr(projects[i]))
          /\ \E S \in SUBSET DOMAIN projects :
                LET ans == Pick(projects, S, 1)
                IN  /\ projects' = Selected(projects, ans)
                    /\ prompted' = [how |-> "ok", ans |-> ans]
          /\ mainPc' = "spawn"
          /\ UNCHANGED <<exitCode, senders, rxAlive>>
       \/ /\ prompted' = [how |-> "aborted", ans |-> << >>]
          /\ mainPc' = AfterAbort
          /\ exitCode' = 0
          /\ IF AfterAbort = "exited"
             THEN senders' = 0 /\ rxAlive' = FALSE
             ELSE UNCHANGED <<senders, rxAlive>>
          /\ UNCHANGED projects
       \/ /\ \E i \in DOMAIN projects : ~DisplayOk(PathStr(projects[i]))
          /\ prompted' = [how |-> "panicked", ans |-> << >>]
          /\ mainPc' = "exited"
          /\ exitCode' = 101
          /\ senders' = 0
          /\ rxAlive' = FALSE
          /\ UNCHANGED projects
    /\ UNCHANGED <<silent, fs, next, pc, poolPc, chan, status, reporterPc,
                   sent, recvd, interactive, depth, tree, manifest, stack,
                   found, considered, chanCreated, deleted>>

\* What the pool can find on disk for a project Discovery returned.  A
\* refused removal ("denied") is left out: the program cannot tell it from
\* a missing node_modules, both make remove_dir_all return Err.
FsAfterDiscovery == {"present", "nocache", "gone"}

\* the pool (spawned, or awaited in silent mode) and the reporter start.
\* fs is what the pool will find on disk for each project: other processes
\* may have changed it since Discovery.
StartPool ==
    /\ mainPc = "spawn"
    /\ mainPc' = "running"
    /\ poolPc' = "running"
    /\ reporterPc' = IF silent THEN "off" ELSE "running"
    /\ next' = 1
    /\ fs' \in [Range(projects) -> FsAfterDiscovery]
    /\ pc' = [p \in Range(projects) |-> "queued"]
    /\ status' = [p \in Range(projects) |-> NewStatus]
    /\ sent' = [p \in Range(projects) |-> << >>]
    /\ recvd' = [p \in Range(projects) |-> << >>]
    /\ UNCHANGED <<silent, projects, chan, senders, rxAlive, exitCode,
                   frontVars, deleted>>

InitFront(maxDirs, depths) ==
    /\ silent \in BOOLEAN
    /\ interactive \in BOOLEAN
    /\ depth \in depths
    /\ tree \in TreesUpTo(maxDirs)
    /\ manifest \in SUBSET tree
    /\ stack = << >>
    /\ found = << >>
    /\ considered = {}
    /\ chanCreated = FALSE
    /\ prompted = NotPrompted
    /\ deleted = {}
    /\ projects = << >>
    /\ fs = << >>
    /\ next = 1
    /\ pc = << >>
    /\ poolPc = "idle"
    /\ chan = << >>
    /\ senders = 0
    /\ rxAlive = FALSE
    /\ status = << >>
    /\ reporterPc = "off"
    /\ mainPc = "start"
    /\ exitCode = 0
    /\ sent = << >>
    /\ recvd = << >>

\* every --depth, for Discovery alone
InitWalk == InitFront(MaxDirs, 0 .. MaxDepth)

\* the largest --depth, for the whole run
InitMain == InitFront(MaxDirs, {MaxDepth})

NextWalk ==
    \/ WalkRoot
    \/ WalkNext
    \/ WalkEnd

\* identify_projects alone
SpecWalk == InitWalk /\ [][NextWalk]_vars

NextMain ==
    \/ WalkRoot
    \/ WalkNext
    \/ WalkEnd
    \/ CheckEmpty
    \/ Prompt
    \/ StartPool
    \/ Start
    \/ \E p \in Range(projects) : RemoveReturn(p)
    \/ \E p \in Range(projects) : Finish(p)
    \/ PoolFinish
    \/ Recv
    \/ ReporterEnd
    \/ MainExit

\* the whole of main
SpecMain == InitMain /\ [][NextMain]_vars

\* ================================================================= claims
\* events a candidate may have been sent so far, in order
EventPrefixes ==
    {<< >>, <<"Deleting">>, <<"Deleting", "Done">>, <<"Deleting", "Failed">>}
EventsComplete == {<<"Deleting", "Done">>, <<"Deleting", "Failed">>}

\* candidates whose Deleting event is sent and whose terminal event is not
Started == {p \in Range(projects) : sent[p] = <<"Deleting">>}

\* C1: every candidate handed to delete_projects gets exactly one Deleting
\* event and then exactly one terminal event (Done or Failed): never an
\* event out of order or twice, and when the program has ended none with
\* fewer.
C1_OneDeletingThenOneTerminal ==
    /\ \A p \in Range(projects) : sent[p] \in EventPrefixes
    /\ mainPc = "exited" => \A p \in Range(projects) : sent[p] \in EventsComplete

\* C2: at most BufferLimit (8) candidates have their Deleting event sent and
\* no terminal event yet; a ninth starts only after one has finished.
C2_AtMostEightInFlight == Cardinality(Started) <= BufferLimit

C2_NinthStartedWhileEightInFlight ==
    /\ Len(projects) > BufferLimit
    /\ sent[projects[BufferLimit + 1]] = <<"Deleting">>
    /\ Cardinality(Started) = BufferLimit
    /\ \E p \in Range(projects) : sent[p] \in EventsComplete

\* C3: a candidate whose path cannot be canonicalized when its deletion
\* starts gets a Failed event and nothing crashes: the pool does not panic,
\* and at the end that candidate and every other one has its terminal event.
C3_ResolutionFailureIsFailedEvent ==
    \A p \in Range(projects) :
        (pc[p] # "queued" /\ ~CanonicalizeOk(fs[p])) =>
            /\ poolPc # "panicked"
            /\ mainPc = "exited" =>
                 /\ sent[p] = <<"Deleting", "Failed">>
                 /\ \A q \in Range(projects) : sent[q] \in EventsComplete

\* the removal of p's cache directory was tried and returned an error
RemovalFailed(p) ==
    \/ pc[p] = "retErr"
    \/ pc[p] = "done" /\ fs[p] # "removed"

\* C4: when the removal of one candidate's cache directory fails, that
\* candidate gets Failed (one Deleting, one Failed: no retry) and every
\* other candidate still gets its Deleting and its own terminal event.
C4_RemovalFailureIsolated ==
    mainPc = "exited" =>
        \A p \in Range(projects) :
            RemovalFailed(p) =>
                /\ sent[p] = <<"Deleting", "Failed">>
                /\ \A q \in Range(projects) \ {p} : sent[q] \in EventsComplete

\* C5: the status the reporter holds for a candidate only moves
\* Waiting -> Deleting -> Done or Failed, in every interleaving.
ForwardMoves ==
    {<<"Waiting", "Deleting">>, <<"Deleting", "Done">>, <<"Deleting", "Failed">>}

C5_StatusOnlyForward ==
    [][\A p \in DOMAIN status :
          status'[p] # status[p] => <<status[p], status'[p]>> \in ForwardMoves]_vars

C5_ReporterSawTerminalAndDeleting ==
    /\ \E p \in DOMAIN status : status[p] \in Terminal
    /\ \E p \in DOMAIN status : status[p] = "Deleting"
    /\ \E p \in DOMAIN status : status[p] = "Waiting"

\* C6: non-silent mode: when the reporter's receive loop has ended, every
\* candidate of its list has a terminal status.
C6_ReporterEndsWithAllTerminal ==
    reporterPc = "done" => \A p \in DOMAIN status : status[p] \in Terminal

\* C7: non-silent mode: the program terminates in every execution in which
\* every removal returns and every task is scheduled.
C7_NonSilentTerminates == (~silent) ~> (mainPc = "exited")

C7_NonSilentExited ==
    /\ ~silent
    /\ mainPc = "exited"
    /\ poolPc = "finished"
    /\ Len(projects) >= 2

\* is a prefix of
IsPrefix(a, b) == Len(a) <= Len(b) /\ a = SubSeq(b, 1, Len(a))

\* C8: non-silent mode: the reporter receives every event that was sent
\* exactly once before it terminates: what it has received for a candidate
\* is always the beginning of what was sent for it, and all of it once the
\* reporter has ended.
C8_EveryEventReceivedOnce ==
    /\ \A p \in Range(projects) : IsPrefix(recvd[p], sent[p])
    /\ reporterPc = "done" => recvd = sent

C8_ReporterEndedAfterEvents ==
    /\ reporterPc = "done"
    /\ \E p \in Range(projects) : recvd[p] \in EventsComplete
    /\ \E p \in Range(projects) : sent[p] = <<"Deleting">>

\* C9: silent mode: for any candidate list the pool runs to completion: no
\* send fails, the removal of every candidate is attempted, and the program
\* ends normally.
C9_SilentPoolCompletes ==
    (silent /\ mainPc = "exited") =>
        /\ poolPc = "finished"
        /\ \A p \in Range(projects) : pc[p] = "done"


\* C18: a failure of a single candidate (removal error or path resolution
\* failure) never shows in the exit status: in both modes the process ends
\* with exit code 0.
C18_ExitCodeAlwaysZero == mainPc = "exited" => exitCode = 0

\* C19: Done is sent for a candidate only after the removal of its cache
\* directory returned success, Failed only after it returned an error, and
\* the reporter holds Done only for a candidate whose cache directory this
\* run removed.
C19_TerminalEventTellsTheTruth ==
    \A p \in Range(projects) :
        /\ (Len(sent[p]) = 2 /\ sent[p][2] = "Done") => fs[p] = "removed"
        /\ (Len(sent[p]) = 2 /\ sent[p][2] = "Failed") =>
               (pc[p] = "done" /\ fs[p] # "removed")
        /\ (p \in DOMAIN status /\ status[p] = "Done") => fs[p] = "removed"
        /\ (p \in DOMAIN status /\ status[p] = "Failed") => fs[p] # "removed"

C19_ReporterShowsDoneAndFailed ==
    /\ \E p \in DOMAIN status : status[p] = "Done"
    /\ \E p \in DOMAIN status : status[p] = "Failed"


\* ------------------------------------------------ claims on the whole run
\* C11: interactive mode: when the user aborts the selection prompt the
\* process exits without starting the pool: no event is sent and nothing
\* is removed.
C11_AbortDeletesNothing ==
    prompted.how = "aborted" =>
        /\ mainPc = "exited"
        /\ exitCode = 0
        /\ poolPc = "idle"
        /\ chan = << >>
        /\ \A p \in DOMAIN sent : sent[p] = << >>
        /\ deleted = {}

C11_AbortedWithCandidates ==
    /\ prompted.how = "aborted"
    /\ Len(found) = 2

\* the tree holds a node_modules directory directly inside d
CacheInside(d) == Append(d, CacheName) \in tree

\* the list the pool has to work on: every discovered candidate, or in
\* interactive mode the ones the user selected
FinalList ==
    IF ~interactive THEN found
    ELSE IF prompted.how = "ok" THEN prompted.ans ELSE << >>

C13_EmptyListExitsAtOnce ==
    (found = << >> /\ mainPc \notin {"start", "identify", "check"}) =>
        /\ mainPc = "exited"
        /\ exitCode = 0
        /\ ~chanCreated
        /\ poolPc = "idle"
        /\ reporterPc = "off"
        /\ chan = << >>
        /\ deleted = {}

C13_NothingFoundAmongManifests ==
    /\ mainPc = "exited"
    /\ found = << >>
    /\ manifest # {}
    /\ depth > 0

\* ---------------------------------------------------- claims on Discovery
\* a is a proper ancestor of d
Above(a, d) == Len(a) < Len(d) /\ a = SubSeq(d, 1, Len(a))

\* the package.json of d lies within `depth` path segments of the root
ManifestWithinDepth(d) == Len(d) + 1 <= depth

\* no ancestor of d holds a package.json
Unshadowed(d) == \A a \in manifest : ~Above(a, d)

C15_NoNestedCandidates ==
    \A i, j \in DOMAIN found : ~Above(found[i], found[j])

\* C16: no package.json more than `depth` path segments below the root is
\* looked at, and every package.json within `depth` segments whose
\* directory has no ancestor with a manifest is looked at.
C16_DepthBoundExact ==
    /\ \A d \in considered : ManifestWithinDepth(d)
    /\ mainPc = "check" =>
         \A d \in manifest :
             (ManifestWithinDepth(d) /\ Unshadowed(d)) => d \in considered

C16_ManifestBelowTheBound ==
    /\ mainPc = "check"
    /\ considered # {}
    /\ \E d \in manifest : ~ManifestWithinDepth(d) /\ Unshadowed(d)

\* C17 as claimed: with depth 0 no candidate but the root is returned, and
\* the root is returned when it directly contains both package.json and
\* node_modules.
C17_DepthZeroReturnsRoot ==
    (depth = 0 /\ mainPc = "check") =>
        /\ \A i \in DOMAIN found : found[i] = Root
        /\ (Root \in manifest /\ CacheInside(Root)) => Root \in Range(found)

\* C17 as amended: with depth 0 the walker yields the root entry only, no
\* package.json is looked at and no candidate is returned, the root
\* included.
C17_DepthZeroFindsNothing ==
    depth = 0 => (found = << >> /\ considered = {})

C17_DepthZeroRootHasBoth ==
    /\ depth = 0
    /\ mainPc = "check"
    /\ Root \in manifest
    /\ CacheInside(Root)

\* C20: every candidate Discovery can produce can be rendered for the
\* selection prompt: Display never fails, the root directory included.
C20_DisplayNeverFails ==
    /\ prompted.how # "panicked"
    /\ mainPc = "prompt" =>
         \A i \in DOMAIN projects : DisplayOk(PathStr(projects[i]))

====
